---- MODULE Spec2Model ----
(***************************************************************************)
(* Model of vs/base/common/event.ts: Emitter (subscribe, release, fire,    *)
(* dispose), its LeakageMonitor, PauseableEmitter, DebounceEmitter,        *)
(* MicrotaskEmitter, AsyncEmitter, EventMultiplexer, EventBufferer, Relay, *)
(* Event.once.                                                             *)
(* Each component has a specification of its own over the shared emitter   *)
(* state; the variables of the other components stay at their initial      *)
(* values.                                                                 *)
(*                                                                         *)
(* A listener callback is arbitrary user code: while a callback runs it    *)
(* may call any operation of the emitter (reentrancy).  The call stack of  *)
(* the single JavaScript thread is kept in `stack`: one frame per running  *)
(* Emitter.fire loop or PauseableEmitter.resume flush loop.  Operations    *)
(* are callable from the top level (empty stack) or from inside a callback *)
(* (top frame is in state "cb").                                           *)
(***************************************************************************)
EXTENDS Integers, Sequences, FiniteSets

\* ---------------------------------------------------------------- bounds
MaxOps == 7             \* user operations made in the Emitter specification
MaxLeakListeners == 3   \* subscriptions made in the leak specification
MaxThreshold == 2       \* largest leak threshold tried
MaxPOps == 7            \* user operations made in the pauseable specification

Sites == 1..2           \* distinct capture sites (Stacktrace.value)

VARIABLES
    listenersDefined,   \* Emitter._listeners !== undefined
    listeners,          \* Emitter._listeners: listener ids in list order
    dqDefined,          \* Emitter._deliveryQueue !== undefined
    deliveryQueue,      \* Emitter._deliveryQueue: [l, e, d] (d: dispatch index, bookkeeping)
    disposed,           \* Emitter._disposed
    sub,                \* per Listener: state of its SafeDisposable subscription
    mon,                \* per Listener: capture site of its removeMonitor closure, 0 if none
    hasMon,             \* Emitter._leakageMon !== undefined
    customThreshold,    \* LeakageMonitor.customThreshold: <<>> (undefined) or <<n>>
    globalThreshold,    \* _globalLeakWarningThreshold
    stacks,             \* LeakageMonitor._stacks: <<site, count>> in Map insertion order
    warnCountdown,      \* LeakageMonitor._warnCountdown, in half units (2 * value)
    warnings,           \* console.warn log of LeakageMonitor.check: [count, top]
    isPaused,           \* PauseableEmitter._isPaused
    eventQueue,         \* PauseableEmitter._eventQueue
    mergeFn,            \* PauseableEmitter._mergeFn is defined
    stack,              \* call stack of running fire / flush loops
    unsetQueue,         \* microtask queued by dispose: <<listeners>> or <<>>
    nfires,             \* number of fire calls made by the environment so far
    unheard,            \* history: payloads fired while the listener list was empty
    fired,              \* history: one record per Emitter.fire that saw _listeners
    calls,              \* history: listener invocations <<l, d>> in order
    errors,             \* error sink (onUnexpectedError): <<l, d>> per report
    faults,             \* history: number of faults raised by listener callbacks
    flushes,            \* history: one record per resume that reached counter 0
    subDuring,          \* history, per Listener: dispatches running when it subscribed
    queued,             \* history: every payload ever pushed on _eventQueue, in order
    npauses,            \* history: number of pause() calls
    peak,               \* history: highest pause counter since it last was 0
    handle,             \* DebounceEmitter._handle: <<>> (undefined) or <<due time>>
    now,                \* the clock, in ticks
    fireAt,             \* history, per fire call: the time it was made
    flushAt,            \* history, per entry of flushes: the time it was made
    queuedEvents,       \* MicrotaskEmitter._queuedEvents
    mtPending,          \* number of flush callbacks waiting in the microtask queue
    mflushes,           \* history: one record per flush callback run
    asyncDQ,            \* AsyncEmitter._asyncDeliveryQueue: [l, c] (c: the call whose data it holds)
    acalls,             \* per fireAsync call: where its async function stands
    cancelled,          \* the fireAsync calls whose token has cancellation requested
    turns,              \* per listener invocation of fireAsync: its thenables and history
    promises,           \* per promise passed to an accepted waitUntil: turn, state, history
    hasListeners,       \* EventMultiplexer.hasListeners
    events,             \* per EventMultiplexer.add call: its entry of `events` and its upstream
    buffers,            \* EventBufferer.buffers: the open buffers (ids), innermost last
    bufs,               \* per bufferEvents call: the payloads pushed on its buffer
    nemit,              \* number of emissions of the wrapped event so far
    binv,               \* history: invocations of the listener of the wrapped event
    listening,          \* Relay.listening
    inputEvent,         \* Relay.inputEvent: 0 (Event.None) or an upstream event
    inputEventListener, \* Relay.inputEventListener: 0 (Disposable.None) or an index of rsubs
    rsubs,              \* the subscriptions the relay made to upstream events: [src, live]
    nswaps,             \* history: number of assignments to Relay.input
    ndisp,              \* history: number of Relay.dispose calls
    upq,                \* per upstream emitter: its delivery queue during a dispatch
    fwd,                \* history: the payloads upstream listeners of the relay forwarded
    onceL,              \* the listeners subscribed through Event.once
    onceInv             \* history: the listener calls made by Event.once wrappers

emitterVars == <<listenersDefined, listeners, dqDefined, deliveryQueue, disposed, sub>>
leakVars == <<mon, hasMon, customThreshold, globalThreshold, stacks, warnCountdown, warnings>>
pauseVars == <<isPaused, eventQueue, mergeFn>>
histVars == <<nfires, unheard, fired, calls, errors, faults, flushes, subDuring, queued,
              npauses, peak>>
debounceVars == <<handle, now, fireAt, flushAt>>
microVars == <<queuedEvents, mtPending, mflushes>>
asyncVars == <<asyncDQ, acalls, cancelled, turns, promises>>
muxVars == <<hasListeners, events>>
bufVars == <<buffers, bufs, nemit, binv>>
relayVars == <<listening, inputEvent, inputEventListener, rsubs, nswaps, ndisp,
               upq, fwd>>
onceVars == <<onceL, onceInv>>
extVars == <<debounceVars, microVars, asyncVars, muxVars, bufVars, relayVars, onceVars>>
notDebounce == <<microVars, asyncVars, muxVars, bufVars, relayVars, onceVars>>
notMicro == <<debounceVars, asyncVars, muxVars, bufVars, relayVars, onceVars>>
notAsync == <<debounceVars, microVars, muxVars, bufVars, relayVars, onceVars>>
notMux == <<debounceVars, microVars, asyncVars, bufVars, relayVars, onceVars>>
notBuf == <<debounceVars, microVars, asyncVars, muxVars, relayVars, onceVars>>
notRelay == <<debounceVars, microVars, asyncVars, muxVars, bufVars, onceVars>>
notOnce == <<debounceVars, microVars, asyncVars, muxVars, bufVars, relayVars>>
vars == <<emitterVars, leakVars, pauseVars, stack, unsetQueue, histVars, extVars>>

\* ------------------------------------------------------- container helpers
\* LinkedList.push's remove closure: unlink one node
Remove(s, x) == SelectSeq(s, LAMBDA y: y # x)

\* the elements of a sequence
Range(s) == {s[i] : i \in 1..Len(s)}

\* Map.get(k) || 0
MapGet(m, k) ==
    IF \E i \in 1..Len(m): m[i][1] = k
    THEN (CHOOSE c \in {m[i][2] : i \in {j \in 1..Len(m): m[j][1] = k}}: TRUE)
    ELSE 0

\* Map.set(k, v): keeps the insertion position of an existing key
MapSet(m, k, v) ==
    IF \E i \in 1..Len(m): m[i][1] = k
    THEN [i \in 1..Len(m) |-> IF m[i][1] = k THEN <<k, v>> ELSE m[i]]
    ELSE Append(m, <<k, v>>)

\* the "most frequent listener" loop of LeakageMonitor.check
RECURSIVE TopFrom(_, _, _)
TopFrom(m, i, top) ==
    IF i > Len(m) THEN top
    ELSE IF top = <<>> \/ top[2] < m[i][2]
         THEN TopFrom(m, i + 1, m[i])
         ELSE TopFrom(m, i + 1, top)

TopStack(m) == TopFrom(m, 1, <<>>)

\* ---------------------------------------------------------- call stack
InCallback == stack # <<>> /\ stack[Len(stack)].st = "cb"
\* user code is running: top level, or inside a listener callback
UserCode == stack = <<>> \/ InCallback
Pop(s) == SubSeq(s, 1, Len(s) - 1)
\* the top frame enters the callback of queue entry `cur`, or is back in its loop
SetTop(s, st, cur) == [s EXCEPT ![Len(s)].st = st, ![Len(s)].cur = cur]
\* the dispatches whose Emitter.fire call has not returned yet
Running == {stack[i].d : i \in {j \in 1..Len(stack): stack[j].k = "fire"}}

\* ------------------------------------------------------------- Init
InitCommon ==
    /\ listenersDefined = FALSE
    /\ listeners = <<>>
    /\ dqDefined = FALSE
    /\ deliveryQueue = <<>>
    /\ disposed = FALSE
    /\ sub = <<>>
    /\ mon = <<>>
    /\ stacks = <<>>
    /\ warnCountdown = 0
    /\ warnings = <<>>
    /\ isPaused = 0
    /\ eventQueue = <<>>
    /\ stack = <<>>
    /\ unsetQueue = <<>>
    /\ nfires = 0
    /\ unheard = {}
    /\ fired = <<>>
    /\ calls = <<>>
    /\ errors = <<>>
    /\ faults = 0
    /\ flushes = <<>>
    /\ subDuring = <<>>
    /\ queued = <<>>
    /\ npauses = 0
    /\ peak = 0
    /\ handle = <<>>
    /\ now = 0
    /\ fireAt = <<>>
    /\ flushAt = <<>>
    /\ queuedEvents = <<>>
    /\ mtPending = 0
    /\ mflushes = <<>>
    /\ asyncDQ = <<>>
    /\ acalls = <<>>
    /\ cancelled = {}
    /\ turns = <<>>
    /\ promises = <<>>
    /\ hasListeners = FALSE
    /\ events = <<>>
    /\ buffers = <<>>
    /\ bufs = <<>>
    /\ nemit = 0
    /\ binv = <<>>
    /\ listening = FALSE
    /\ inputEvent = 0
    /\ inputEventListener = 0
    /\ rsubs = <<>>
    /\ nswaps = 0
    /\ ndisp = 0
    /\ upq = [s \in 1..2 |-> <<>>]
    /\ fwd = <<>>
    /\ onceL = {}
    /\ onceInv = <<>>

\* new Emitter() with the default _globalLeakWarningThreshold = -1
Init ==
    /\ InitCommon
    /\ globalThreshold = -1
    /\ customThreshold = <<>>
    /\ hasMon = FALSE
    /\ mergeFn = FALSE

\* ------------------------------------------------------ LeakageMonitor
Threshold == IF customThreshold # <<>> THEN customThreshold[1] ELSE globalThreshold

\* LeakageMonitor.check: TRUE when it returns undefined (nothing recorded)
CheckSkips(listenerCount) == Threshold <= 0 \/ listenerCount < Threshold

\* LeakageMonitor.check(stack, listenerCount) past the early return
Check(site, listenerCount) ==
    LET tally == MapSet(stacks, site, MapGet(stacks, site) + 1)
        cd == warnCountdown - 2
    IN  /\ stacks' = tally
        /\ IF cd <= 0
           THEN /\ warnCountdown' = Threshold
                /\ warnings' = Append(warnings,
                       [count |-> listenerCount, top |-> TopStack(tally)])
           ELSE /\ warnCountdown' = cd
                /\ UNCHANGED warnings

\* ------------------------------------------------------------ Emitter
\* variant: the fire loop walks the live list, so a listener added while a
\* dispatch is running is also visited for the payload in flight
Subscribe_LiveIteration ==
    /\ UserCode
    /\ LET l == Len(sub) + 1
           last == deliveryQueue[Len(deliveryQueue)]
       IN  /\ listenersDefined' = TRUE
           /\ listeners' = Append(listeners, l)
           /\ sub' = Append(sub, "set")
           /\ subDuring' = Append(subDuring, Running)
           /\ mon' = Append(mon, 0)
           /\ deliveryQueue' =
                 IF deliveryQueue # <<>>
                 THEN Append(deliveryQueue, [l |-> l, e |-> last.e, d |-> last.d])
                 ELSE deliveryQueue
    /\ UNCHANGED <<dqDefined, disposed, hasMon, customThreshold, globalThreshold,
                   stacks, warnCountdown, warnings, pauseVars, stack, unsetQueue,
                   nfires, unheard, fired, calls, errors, faults, flushes, queued, npauses, peak>>

\* Emitter.event: subscribe a new listener
Subscribe ==
    /\ UserCode
    /\ LET l == Len(sub) + 1
           listenerCount == Len(listeners) + 1
       IN  /\ listenersDefined' = TRUE
           /\ listeners' = Append(listeners, l)
           /\ sub' = Append(sub, "set")
           /\ subDuring' = Append(subDuring, Running)
           /\ IF hasMon /\ ~CheckSkips(listenerCount)
              THEN \E site \in Sites:
                      /\ Check(site, listenerCount)
                      /\ mon' = Append(mon, site)
              ELSE /\ mon' = Append(mon, 0)
                   /\ UNCHANGED <<stacks, warnCountdown, warnings>>
    /\ UNCHANGED <<dqDefined, deliveryQueue, disposed, hasMon, customThreshold,
                   globalThreshold, pauseVars, stack, unsetQueue, nfires, unheard, fired,
                   calls, errors, faults, flushes, queued, npauses, peak>>

\* variant: releasing a listener also takes its queued deliveries away
Release_Purge(l) ==
    /\ UserCode
    /\ l \in 1..Len(sub)
    /\ sub[l] = "set"
    /\ sub' = [sub EXCEPT ![l] = "released"]
    /\ IF mon[l] # 0
       THEN stacks' = MapSet(stacks, mon[l], MapGet(stacks, mon[l]) - 1)
       ELSE UNCHANGED stacks
    /\ IF ~disposed
       THEN listeners' = Remove(listeners, l)
       ELSE UNCHANGED listeners
    /\ deliveryQueue' = SelectSeq(deliveryQueue, LAMBDA x: x.l # l)
    /\ UNCHANGED <<listenersDefined, dqDefined, disposed, mon, hasMon,
                   customThreshold, globalThreshold, warnCountdown, warnings,
                   pauseVars, stack, unsetQueue, histVars>>

\* the release handle returned by Emitter.event (SafeDisposable.dispose)
Release(l) ==
    /\ UserCode
    /\ l \in 1..Len(sub)
    /\ sub[l] = "set"
    /\ sub' = [sub EXCEPT ![l] = "released"]
    /\ IF mon[l] # 0
       THEN stacks' = MapSet(stacks, mon[l], MapGet(stacks, mon[l]) - 1)
       ELSE UNCHANGED stacks
    /\ IF ~disposed
       THEN listeners' = Remove(listeners, l)
       ELSE UNCHANGED listeners
    /\ UNCHANGED <<listenersDefined, dqDefined, deliveryQueue, disposed, mon, hasMon,
                   customThreshold, globalThreshold, warnCountdown, warnings,
                   pauseVars, stack, unsetQueue, histVars>>

\* variant: a fire puts its deliveries in front of the ones already queued
EmitterFire_DepthFirst(e, stk, src) ==
    IF listenersDefined
    THEN LET d == Len(fired) + 1 IN
         /\ dqDefined' = TRUE
         /\ deliveryQueue' =
                [i \in 1..Len(listeners) |-> [l |-> listeners[i], e |-> e, d |-> d]]
                    \o deliveryQueue
         /\ stack' = Append(stk, [k |-> "fire", st |-> "loop", d |-> d, cur |-> <<>>])
         /\ fired' = Append(fired,
                [e |-> e, snap |-> listeners, cut |-> FALSE, born |-> Len(sub),
                 rel |-> {l \in 1..Len(sub): sub[l] = "released"},
                 alloc |-> ~dqDefined, disp |-> disposed, src |-> src])
    ELSE /\ stack' = stk
         /\ UNCHANGED <<dqDefined, deliveryQueue, fired>>

\* Emitter.fire(e) up to the start of its delivery loop, called with `stk` as
\* the caller's stack; src names the caller in the history record
EmitterFire(e, stk, src) ==
    IF listenersDefined
    THEN LET d == Len(fired) + 1 IN
         /\ dqDefined' = TRUE
         /\ deliveryQueue' = deliveryQueue \o
                [i \in 1..Len(listeners) |-> [l |-> listeners[i], e |-> e, d |-> d]]
         /\ stack' = Append(stk, [k |-> "fire", st |-> "loop", d |-> d, cur |-> <<>>])
         /\ fired' = Append(fired,
                [e |-> e, snap |-> listeners, cut |-> FALSE, born |-> Len(sub),
                 rel |-> {l \in 1..Len(sub): sub[l] = "released"},
                 alloc |-> ~dqDefined, disp |-> disposed, src |-> src])
    ELSE /\ stack' = stk
         /\ UNCHANGED <<dqDefined, deliveryQueue, fired>>

\* Emitter.fire called by user code with a fresh payload
Fire ==
    /\ UserCode
    /\ nfires' = nfires + 1
    /\ unheard' = IF Len(listeners) = 0 THEN unheard \cup {nfires + 1} ELSE unheard
    /\ EmitterFire(<<nfires + 1>>, stack, "fire")
    /\ UNCHANGED <<listenersDefined, listeners, disposed, sub, leakVars, pauseVars,
                   unsetQueue, calls, errors, faults, flushes, subDuring, queued, npauses, peak>>

\* variant: the loop takes the newest queue entry (pop) instead of the oldest
Deliver_Lifo ==
    /\ stack # <<>>
    /\ stack[Len(stack)].k = "fire"
    /\ stack[Len(stack)].st = "loop"
    /\ IF Len(deliveryQueue) > 0
       THEN LET last == deliveryQueue[Len(deliveryQueue)] IN
            /\ deliveryQueue' = SubSeq(deliveryQueue, 1, Len(deliveryQueue) - 1)
            /\ calls' = Append(calls, <<last.l, last.d>>)
            /\ stack' = SetTop(stack, "cb", <<last.l, last.d>>)
       ELSE /\ stack' = Pop(stack)
            /\ UNCHANGED <<deliveryQueue, calls>>
    /\ UNCHANGED <<listenersDefined, listeners, dqDefined, disposed, sub, leakVars,
                   pauseVars, unsetQueue, nfires, unheard, fired, errors, faults, flushes,
                   subDuring, queued, npauses, peak>>

\* one turn of the while loop of Emitter.fire: shift and invoke, or leave
Deliver ==
    /\ stack # <<>>
    /\ stack[Len(stack)].k = "fire"
    /\ stack[Len(stack)].st = "loop"
    /\ IF Len(deliveryQueue) > 0
       THEN /\ deliveryQueue' = Tail(deliveryQueue)
            /\ calls' = Append(calls, <<Head(deliveryQueue).l, Head(deliveryQueue).d>>)
            /\ stack' = SetTop(stack, "cb", <<Head(deliveryQueue).l, Head(deliveryQueue).d>>)
       ELSE /\ stack' = Pop(stack)
            /\ UNCHANGED <<deliveryQueue, calls>>
    /\ UNCHANGED <<listenersDefined, listeners, dqDefined, disposed, sub, leakVars,
                   pauseVars, unsetQueue, nfires, unheard, fired, errors, faults, flushes,
                   subDuring, queued, npauses, peak>>

\* the listener callback returns normally
Return ==
    /\ InCallback
    /\ stack' = SetTop(stack, "loop", <<>>)
    /\ UNCHANGED <<emitterVars, leakVars, pauseVars, unsetQueue, histVars>>

\* variant: no try/catch around listener.invoke, the fault leaves fire
Throw_Uncaught ==
    /\ InCallback
    /\ faults' = faults + 1
    /\ stack' = Pop(stack)
    /\ UNCHANGED <<emitterVars, leakVars, pauseVars, unsetQueue, nfires, unheard, fired,
                   calls, errors, flushes, subDuring, queued, npauses, peak>>

\* the listener callback raises: caught in fire, onUnexpectedError(e)
Throw ==
    /\ InCallback
    /\ faults' = faults + 1
    /\ errors' = Append(errors, stack[Len(stack)].cur)
    /\ stack' = SetTop(stack, "loop", <<>>)
    /\ UNCHANGED <<emitterVars, leakVars, pauseVars, unsetQueue, nfires, unheard, fired,
                   calls, flushes, subDuring, queued, npauses, peak>>

\* Emitter.dispose
Dispose ==
    /\ UserCode
    /\ IF ~disposed
       THEN /\ disposed' = TRUE
            /\ IF listenersDefined
               THEN /\ listeners' = <<>>
                    /\ unsetQueue' = <<Range(listeners)>>
               ELSE UNCHANGED <<listeners, unsetQueue>>
            /\ deliveryQueue' = <<>>
            /\ fired' = [d \in 1..Len(fired) |->
                   IF \E i \in 1..Len(deliveryQueue): deliveryQueue[i].d = d
                   THEN [fired[d] EXCEPT !.cut = TRUE] ELSE fired[d]]
            /\ stacks' = <<>>
       ELSE UNCHANGED <<disposed, listeners, unsetQueue, deliveryQueue, fired, stacks>>
    /\ UNCHANGED <<listenersDefined, dqDefined, sub, mon, hasMon, customThreshold,
                   globalThreshold, warnCountdown, warnings, pauseVars, stack,
                   nfires, unheard, calls, errors, faults, flushes, subDuring, queued, npauses, peak>>

\* the microtask queued by dispose: unset the subscriptions still set
Microtask ==
    /\ stack = <<>>
    /\ unsetQueue # <<>>
    /\ sub' = [l \in 1..Len(sub) |->
                  IF l \in unsetQueue[1] /\ sub[l] = "set" THEN "unset" ELSE sub[l]]
    /\ unsetQueue' = <<>>
    /\ UNCHANGED <<listenersDefined, listeners, dqDefined, deliveryQueue, disposed,
                   leakVars, pauseVars, stack, histVars>>

\* --------------------------------------------------- PauseableEmitter
\* the merge option, instantiated as T = number[], merge = xs => xs.flat()
RECURSIVE MergeFn(_)
MergeFn(input) ==
    IF input = <<>> THEN <<>> ELSE Head(input) \o MergeFn(Tail(input))

FlushFrame == [k |-> "flush", st |-> "loop", d |-> 0, cur |-> <<>>]

\* PauseableEmitter.pause
Pause ==
    /\ UserCode
    /\ isPaused' = isPaused + 1
    /\ npauses' = npauses + 1
    /\ peak' = IF isPaused + 1 > peak THEN isPaused + 1 ELSE peak
    /\ UNCHANGED <<emitterVars, leakVars, eventQueue, mergeFn, stack, unsetQueue,
                   nfires, unheard, fired, calls, errors, faults, flushes, subDuring, queued>>

\* variant: pause is a flag, not a counter: any resume unpauses and flushes
Resume_NotCounted ==
    /\ UserCode
    /\ IF isPaused # 0
       THEN /\ isPaused' = 0
            /\ flushes' = Append(flushes,
                   [batch |-> eventQueue, peak |-> peak,
                    d |-> IF mergeFn /\ listenersDefined THEN Len(fired) + 1 ELSE 0])
            /\ peak' = 0
            /\ IF mergeFn
               THEN /\ eventQueue' = <<>>
                    /\ EmitterFire(MergeFn(eventQueue), stack, "resume")
               ELSE /\ stack' = Append(stack, FlushFrame)
                    /\ UNCHANGED <<eventQueue, dqDefined, deliveryQueue, fired>>
       ELSE UNCHANGED <<isPaused, flushes, peak, eventQueue, dqDefined,
                        deliveryQueue, fired, stack>>
    /\ UNCHANGED <<listenersDefined, listeners, disposed, sub, leakVars, mergeFn,
                   unsetQueue, nfires, unheard, calls, errors, faults, subDuring, queued,
                   npauses>>

\* variant: the merged batch is not removed from the queue
Resume_KeepsQueue ==
    /\ UserCode
    /\ IF isPaused # 0
       THEN /\ isPaused' = isPaused - 1
            /\ IF isPaused - 1 = 0
               THEN /\ flushes' = Append(flushes,
                           [batch |-> eventQueue, peak |-> peak,
                            d |-> IF mergeFn /\ listenersDefined THEN Len(fired) + 1 ELSE 0])
                    /\ peak' = 0
                    /\ IF mergeFn
                       THEN /\ UNCHANGED eventQueue
                            /\ EmitterFire(MergeFn(eventQueue), stack, "resume")
                       ELSE /\ stack' = Append(stack, FlushFrame)
                            /\ UNCHANGED <<eventQueue, dqDefined, deliveryQueue, fired>>
               ELSE UNCHANGED <<flushes, peak, eventQueue, dqDefined, deliveryQueue, fired,
                                stack>>
       ELSE UNCHANGED <<isPaused, flushes, peak, eventQueue, dqDefined,
                        deliveryQueue, fired, stack>>
    /\ UNCHANGED <<listenersDefined, listeners, disposed, sub, leakVars, mergeFn,
                   unsetQueue, nfires, unheard, calls, errors, faults, subDuring, queued,
                   npauses>>

\* PauseableEmitter.resume up to the start of the dispatch or of the flush loop
Resume ==
    /\ UserCode
    /\ IF isPaused # 0
       THEN /\ isPaused' = isPaused - 1
            /\ IF isPaused - 1 = 0
               THEN /\ flushes' = Append(flushes,
                           [batch |-> eventQueue, peak |-> peak,
                            d |-> IF mergeFn /\ listenersDefined THEN Len(fired) + 1 ELSE 0])
                    /\ peak' = 0
                    /\ IF mergeFn
                       THEN /\ eventQueue' = <<>>
                            /\ EmitterFire(MergeFn(eventQueue), stack, "resume")
                       ELSE /\ stack' = Append(stack, FlushFrame)
                            /\ UNCHANGED <<eventQueue, dqDefined, deliveryQueue, fired>>
               ELSE UNCHANGED <<flushes, peak, eventQueue, dqDefined, deliveryQueue, fired,
                                stack>>
       ELSE UNCHANGED <<isPaused, flushes, peak, eventQueue, dqDefined,
                        deliveryQueue, fired, stack>>
    /\ UNCHANGED <<listenersDefined, listeners, disposed, sub, leakVars, mergeFn,
                   unsetQueue, nfires, unheard, calls, errors, faults, subDuring, queued,
                   npauses>>

\* variant: the flush loop takes the newest queued payload first
Flush_Lifo ==
    /\ stack # <<>>
    /\ stack[Len(stack)].k = "flush"
    /\ IF isPaused = 0 /\ Len(eventQueue) # 0
       THEN /\ eventQueue' = SubSeq(eventQueue, 1, Len(eventQueue) - 1)
            /\ EmitterFire(eventQueue[Len(eventQueue)], stack, "resume")
       ELSE /\ stack' = Pop(stack)
            /\ UNCHANGED <<eventQueue, dqDefined, deliveryQueue, fired>>
    /\ UNCHANGED <<listenersDefined, listeners, disposed, sub, leakVars, isPaused,
                   mergeFn, unsetQueue, nfires, unheard, calls, errors, faults, flushes,
                   subDuring, queued, npauses, peak>>

\* variant: the flush loop does not look at the pause counter
Flush_IgnoresPause ==
    /\ stack # <<>>
    /\ stack[Len(stack)].k = "flush"
    /\ IF Len(eventQueue) # 0
       THEN /\ eventQueue' = Tail(eventQueue)
            /\ EmitterFire(Head(eventQueue), stack, "resume")
       ELSE /\ stack' = Pop(stack)
            /\ UNCHANGED <<eventQueue, dqDefined, deliveryQueue, fired>>
    /\ UNCHANGED <<listenersDefined, listeners, disposed, sub, leakVars, isPaused,
                   mergeFn, unsetQueue, nfires, unheard, calls, errors, faults, flushes,
                   subDuring, queued, npauses, peak>>

\* one turn of the while loop of resume without a merge function
Flush ==
    /\ stack # <<>>
    /\ stack[Len(stack)].k = "flush"
    /\ IF isPaused = 0 /\ Len(eventQueue) # 0
       THEN /\ eventQueue' = Tail(eventQueue)
            /\ EmitterFire(Head(eventQueue), stack, "resume")
       ELSE /\ stack' = Pop(stack)
            /\ UNCHANGED <<eventQueue, dqDefined, deliveryQueue, fired>>
    /\ UNCHANGED <<listenersDefined, listeners, disposed, sub, leakVars, isPaused,
                   mergeFn, unsetQueue, nfires, unheard, calls, errors, faults, flushes,
                   subDuring, queued, npauses, peak>>

\* PauseableEmitter.fire called by user code with a fresh payload
PauseableFire ==
    /\ UserCode
    /\ nfires' = nfires + 1
    /\ unheard' = IF Len(listeners) = 0 THEN unheard \cup {nfires + 1} ELSE unheard
    /\ IF listenersDefined
       THEN IF isPaused # 0
            THEN /\ eventQueue' = Append(eventQueue, <<nfires + 1>>)
                 /\ queued' = Append(queued, <<nfires + 1>>)
                 /\ UNCHANGED <<dqDefined, deliveryQueue, fired, stack>>
            ELSE /\ EmitterFire(<<nfires + 1>>, stack, "fire")
                 /\ UNCHANGED <<eventQueue, queued>>
       ELSE UNCHANGED <<eventQueue, queued, dqDefined, deliveryQueue, fired, stack>>
    /\ UNCHANGED <<listenersDefined, listeners, disposed, sub, leakVars, isPaused,
                   mergeFn, unsetQueue, calls, errors, faults, flushes, subDuring,
                   npauses, peak>>

\* --------------------------------------------------------- specifications
\* the user operations made so far: subscribe, release, fire, dispose, and
\* the faults raised by callbacks
Ops ==
    Len(sub) + Cardinality({l \in 1..Len(sub): sub[l] = "released"}) + nfires
        + faults + (IF disposed THEN 1 ELSE 0) + (2 * npauses - isPaused)

Next ==
    \/ (Ops < MaxOps /\ Subscribe /\ UNCHANGED extVars)
    \/ (Ops < MaxOps /\ \E l \in 1..Len(sub): Release(l) /\ UNCHANGED extVars)
    \/ (Ops < MaxOps /\ Fire /\ UNCHANGED extVars)
    \/ (Deliver /\ UNCHANGED extVars)
    \/ (Return /\ UNCHANGED extVars)
    \/ (Ops < MaxOps /\ Throw /\ UNCHANGED extVars)
    \/ (Ops < MaxOps /\ Dispose /\ UNCHANGED extVars)
    \/ (Microtask /\ UNCHANGED extVars)

Spec == Init /\ [][Next]_vars

\* new Emitter(options) after setGlobalLeakWarningThreshold(n): the monitor is
\* created when the global threshold is positive at construction
InitLeak ==
    /\ InitCommon
    /\ globalThreshold \in -1..MaxThreshold
    /\ customThreshold \in {<<>>} \cup {<<n>> : n \in 0..MaxThreshold}
    /\ hasMon = (globalThreshold > 0)
    /\ mergeFn = FALSE

NextLeak ==
    \/ (Len(sub) < MaxLeakListeners /\ Subscribe /\ UNCHANGED extVars)
    \/ (\E l \in 1..Len(sub): Release(l) /\ UNCHANGED extVars)
    \/ (Dispose /\ UNCHANGED extVars)
    \/ (Microtask /\ UNCHANGED extVars)

SpecLeak == InitLeak /\ [][NextLeak]_vars

\* new PauseableEmitter(options), with or without a merge function
InitPauseable ==
    /\ InitCommon
    /\ globalThreshold = -1
    /\ customThreshold = <<>>
    /\ hasMon = FALSE
    /\ mergeFn \in BOOLEAN

NextPauseable ==
    \/ (Ops < MaxPOps /\ Subscribe /\ UNCHANGED extVars)
    \/ (Ops < MaxPOps /\ \E l \in 1..Len(sub): Release(l) /\ UNCHANGED extVars)
    \/ (Ops < MaxPOps /\ PauseableFire /\ UNCHANGED extVars)
    \/ (Ops + 1 < MaxPOps /\ Pause /\ UNCHANGED extVars)
    \/ (Resume /\ UNCHANGED extVars)
    \/ (Flush /\ UNCHANGED extVars)
    \/ (Deliver /\ UNCHANGED extVars)
    \/ (Return /\ UNCHANGED extVars)
    \/ (Ops < MaxPOps /\ Throw /\ UNCHANGED extVars)
    \/ (Ops < MaxPOps /\ Dispose /\ UNCHANGED extVars)
    \/ (Microtask /\ UNCHANGED extVars)

SpecPauseable == InitPauseable /\ [][NextPauseable]_vars

\* ------------------------------------------------------------ properties
\* the listeners invoked so far for dispatch d, in invocation order
CallsOf(d) ==
    LET c == SelectSeq(calls, LAMBDA x: x[2] = d)
    IN  [i \in 1..Len(c) |-> c[i][1]]

\* the listeners still queued for dispatch d, in queue order
PendingOf(d) ==
    LET q == SelectSeq(deliveryQueue, LAMBDA x: x.d = d)
    IN  [i \in 1..Len(q) |-> q[i].l]

IsPrefix(s, t) == Len(s) <= Len(t) /\ SubSeq(t, 1, Len(s)) = s

Increasing(s) == \A i, j \in 1..Len(s): i < j => s[i] < s[j]

\* C1: listener ids are handed out in subscription order.  For every fire
\* call, the listeners invoked so far followed by the listeners still queued
\* for it are exactly the listeners that were subscribed when it started, in
\* subscription order, each once (after a dispose during the dispatch, which
\* empties the queue, the invoked ones are a prefix of them).
C1_SubscriptionOrder ==
    \A d \in 1..Len(fired):
        /\ Increasing(fired[d].snap)
        /\ IF fired[d].cut
           THEN IsPrefix(CallsOf(d), fired[d].snap)
           ELSE CallsOf(d) \o PendingOf(d) = fired[d].snap

\* a fire over three listeners of which the middle one was released before,
\* or over two, has returned with every listener invoked once, in order
C1_Witness ==
    \E d \in 1..Len(fired):
        /\ Len(fired[d].snap) >= 2
        /\ CallsOf(d) = fired[d].snap
        /\ d \notin Running

\* C2: a listener that subscribed while some fire was being dispatched is
\* never invoked for that fire; every fire that starts later, while it is
\* still subscribed and the emitter is not disposed, has it in its snapshot
\* and invokes it (unless a dispose empties the queue first).
C2_LateSubscriber ==
    \A l \in 1..Len(sub):
        /\ \A d \in subDuring[l]: <<l, d>> \notin Range(calls)
        /\ subDuring[l] # {} =>
              \A d \in 1..Len(fired):
                 (fired[d].born >= l /\ l \notin fired[d].rel /\ ~fired[d].disp) =>
                    /\ l \in Range(fired[d].snap)
                    /\ ~fired[d].cut => l \in Range(CallsOf(d) \o PendingOf(d))
                    /\ (~fired[d].cut /\ d \notin Running) => l \in Range(CallsOf(d))

\* a listener subscribed during a dispatch that went on to invoke another
\* listener and returned, and was then invoked for a later fire
C2_Witness ==
    \E l \in 1..Len(sub): \E d \in subDuring[l]: \E d2 \in 1..Len(fired):
        /\ d2 > d
        /\ <<l, d2>> \in Range(calls)
        /\ Len(CallsOf(d)) >= 2
        /\ d \notin Running

\* C3 (as claimed): no listener is invoked for a fire that started after its
\* release handle was released.
C3_ReleasedNeverInvoked ==
    \A i \in 1..Len(calls): calls[i][1] \notin fired[calls[i][2]].rel

\* C4 (as claimed): a fire that starts after dispose invokes no listener.
C4_FireAfterDisposeNoop ==
    \A i \in 1..Len(calls): ~fired[calls[i][2]].disp

\* C5: every fault raised by a listener is reported to the error sink, once;
\* the fire loop goes on: entries still queued keep a running fire loop, and
\* a dispatch in which a listener raised still invokes every listener of its
\* snapshot.
C5_FaultIsolated ==
    /\ Len(errors) = faults
    /\ deliveryQueue # <<>> => Running # {}
    /\ \A i \in 1..Len(errors):
          LET d == errors[i][2] IN
          /\ ~fired[d].cut => CallsOf(d) \o PendingOf(d) = fired[d].snap
          /\ (~fired[d].cut /\ d \notin Running) => CallsOf(d) = fired[d].snap

\* the first of two listeners raised, the second was invoked all the same and
\* the fire call returned
C5_Witness ==
    \E i \in 1..Len(errors):
        LET d == errors[i][2] IN
        /\ Len(fired[d].snap) >= 2
        /\ errors[i][1] = fired[d].snap[1]
        /\ CallsOf(d) = fired[d].snap
        /\ stack = <<>>

\* C6 (as claimed): a fire that finds zero listeners allocates no delivery
\* queue.
C6_NoListenersNoQueue ==
    \A d \in 1..Len(fired): fired[d].snap = <<>> => ~fired[d].alloc

\* C7 (as claimed): with a threshold N > 0 in effect, every warning is for a
\* listener count above N.
C7_WarnOnlyAboveThreshold ==
    (hasMon /\ Threshold > 0) =>
        \A i \in 1..Len(warnings): warnings[i].count > Threshold

\* the payloads of the dispatches started so far, in order
Emitted == [d \in 1..Len(fired) |-> fired[d].e]

\* C8: pause and resume are reference counted.  The counter is never
\* negative and moves by one per call; a resume that leaves the counter above
\* 0 starts no dispatch and no flush and keeps the queue; a dispatch starts,
\* and a payload leaves the queue, only in a step that ends with the counter
\* at 0; and a payload that is still queued has not been dispatched.
C8_RefCounted ==
    [][ /\ isPaused' >= 0
        /\ isPaused' \in {isPaused - 1, isPaused, isPaused + 1}
        /\ (isPaused' < isPaused /\ isPaused' > 0) =>
              UNCHANGED <<fired, eventQueue, stack, deliveryQueue, calls, flushes>>
        /\ (Len(fired') > Len(fired) \/ Len(eventQueue') < Len(eventQueue)) =>
              isPaused' = 0
        /\ \A i \in 1..Len(eventQueue'):
              \A d \in 1..Len(fired'):
                 \A j \in 1..Len(fired'[d].e): eventQueue'[i][1] # fired'[d].e[j]
      ]_vars

\* after two nested pauses and a fire, the second resume flushed the payload
\* and a listener was invoked with it
C8_Witness ==
    \E f \in 1..Len(flushes): \E d \in 1..Len(fired):
        /\ flushes[f].peak >= 2
        /\ flushes[f].batch # <<>>
        /\ fired[d].src = "resume"
        /\ fired[d].e[1] = flushes[f].batch[1][1]
        /\ CallsOf(d) # <<>>

\* C9: without a merge function every payload queued while paused is either
\* still queued or was dispatched by a flush as an emission of its own,
\* exactly once, and the flush emissions followed by the queue are the queued
\* payloads in the order in which they were fired; when no call is running
\* and the counter is 0 nothing is left in the queue.
C9_FlushInOrder ==
    ~mergeFn =>
        /\ SelectSeq(Emitted, LAMBDA e: e \in Range(queued)) \o eventQueue = queued
        /\ \A d \in 1..Len(fired): fired[d].src = "resume" <=> fired[d].e \in Range(queued)
        /\ (stack = <<>> /\ isPaused = 0) => eventQueue = <<>>

\* pause; fire; fire; resume: two emissions, in fire order, both delivered
C9_Witness ==
    /\ ~mergeFn
    /\ Len(queued) >= 2
    /\ eventQueue = <<>>
    /\ stack = <<>>
    /\ \E f \in 1..Len(flushes): Len(flushes[f].batch) >= 2
    /\ \A d \in 1..Len(fired): fired[d].src = "resume" /\ CallsOf(d) # <<>>

\* the batches merged by the resumes so far, concatenated
RECURSIVE Batches(_)
Batches(fs) ==
    IF fs = <<>> THEN <<>> ELSE Head(fs).batch \o Batches(Tail(fs))

\* C10: with a merge function every resume that brings the counter to 0
\* starts exactly one dispatch, whose payload is the merge of the whole queue
\* of that moment; the dispatches started by resume are exactly these; the
\* batches partition the queued payloads in order; and the queue is empty
\* whenever the counter is 0.
C10_MergedOnce ==
    mergeFn =>
        /\ \A f \in 1..Len(flushes):
              flushes[f].d # 0 =>
                 /\ flushes[f].d \in 1..Len(fired)
                 /\ fired[flushes[f].d].src = "resume"
                 /\ fired[flushes[f].d].e = MergeFn(flushes[f].batch)
        /\ \A f, g \in 1..Len(flushes):
              (f # g /\ flushes[f].d # 0) => flushes[f].d # flushes[g].d
        /\ \A d \in 1..Len(fired):
              fired[d].src = "resume" => \E f \in 1..Len(flushes): flushes[f].d = d
        /\ Batches(flushes) \o eventQueue = queued
        /\ isPaused = 0 => eventQueue = <<>>

\* pause; fire; fire; resume: one emission carrying both payloads, delivered
C10_Witness ==
    /\ mergeFn
    /\ \E f \in 1..Len(flushes):
          /\ Len(flushes[f].batch) >= 2
          /\ flushes[f].d # 0
          /\ CallsOf(flushes[f].d) # <<>>
    /\ Len(fired) = 1
    /\ stack = <<>>

\* C11: a payload fired on a PauseableEmitter while it has no listeners is
\* dropped, paused or not: it is never pushed on the event queue and no
\* listener, subscribed later or not, is ever invoked with it
C11_NoListenersDropped ==
    /\ \A i \in 1..Len(queued): queued[i][1] \notin unheard
    /\ \A i \in 1..Len(calls): Range(fired[calls[i][2]].e) \cap unheard = {}

\* -------------------------------------------------------- DebounceEmitter
MaxDOps == 7            \* user operations and clock ticks in the debounce specification
Delay == 2              \* DebounceEmitter._delay, in ticks

\* DebounceEmitter.fire: the first fire after an idle period pauses the
\* emitter and arms the timer; every fire then goes to PauseableEmitter.fire
DebounceFire ==
    /\ UserCode
    /\ nfires' = nfires + 1
    /\ unheard' = IF Len(listeners) = 0 THEN unheard \cup {nfires + 1} ELSE unheard
    /\ fireAt' = Append(fireAt, now)
    /\ IF handle = <<>>
       THEN /\ isPaused' = isPaused + 1
            /\ npauses' = npauses + 1
            /\ peak' = IF isPaused + 1 > peak THEN isPaused + 1 ELSE peak
            /\ handle' = <<now + Delay>>
       ELSE UNCHANGED <<isPaused, npauses, peak, handle>>
    /\ IF listenersDefined
       THEN IF isPaused' # 0
            THEN /\ eventQueue' = Append(eventQueue, <<nfires + 1>>)
                 /\ queued' = Append(queued, <<nfires + 1>>)
                 /\ UNCHANGED <<dqDefined, deliveryQueue, fired, stack>>
            ELSE /\ EmitterFire(<<nfires + 1>>, stack, "fire")
                 /\ UNCHANGED <<eventQueue, queued>>
       ELSE UNCHANGED <<eventQueue, queued, dqDefined, deliveryQueue, fired, stack>>
    /\ UNCHANGED <<listenersDefined, listeners, disposed, sub, leakVars, mergeFn,
                   unsetQueue, calls, errors, faults, flushes, subDuring, now, flushAt,
                   notDebounce>>

\* the setTimeout callback of DebounceEmitter.fire: a task of its own, run
\* once the timer is due; it clears the handle and calls resume
Timeout ==
    /\ stack = <<>>
    /\ handle # <<>>
    /\ now >= handle[1]
    /\ handle' = <<>>
    /\ Resume
    /\ flushAt' = IF Len(flushes') > Len(flushes) THEN Append(flushAt, now) ELSE flushAt
    /\ UNCHANGED <<now, fireAt, notDebounce>>

\* time passes
Tick ==
    /\ now' = now + 1
    /\ UNCHANGED <<emitterVars, leakVars, pauseVars, stack, unsetQueue, histVars,
                   handle, fireAt, flushAt, notDebounce>>

\* new DebounceEmitter({ merge, delay }): the merge function is mandatory
InitDebounce ==
    /\ InitCommon
    /\ globalThreshold = -1
    /\ customThreshold = <<>>
    /\ hasMon = FALSE
    /\ mergeFn = TRUE

DOps ==
    Len(sub) + Cardinality({l \in 1..Len(sub): sub[l] = "released"}) + nfires + now

NextDebounce ==
    \/ (DOps < MaxDOps /\ Subscribe /\ UNCHANGED extVars)
    \/ (DOps < MaxDOps /\ \E l \in 1..Len(sub): Release(l) /\ UNCHANGED extVars)
    \/ (DOps < MaxDOps /\ DebounceFire)
    \/ (DOps < MaxDOps /\ Tick)
    \/ Timeout
    \/ (Deliver /\ UNCHANGED extVars)
    \/ (Return /\ UNCHANGED extVars)

SpecDebounce == InitDebounce /\ [][NextDebounce]_vars

\* the time of the last fire whose payload is in batch b
LastFireOf(b) == fireAt[b[Len(b)][1]]

\* C12: a burst of fires, each less than the delay after the previous one,
\* collapses to one merged emission that covers every payload of the burst,
\* and that emission is made a full delay after the last fire of the burst,
\* not earlier (trailing edge)
C12_TrailingEdge ==
    /\ \A f \in 1..Len(flushAt):
          flushes[f].batch # <<>> => flushAt[f] >= LastFireOf(flushes[f].batch) + Delay
    /\ \A f \in 1..Len(flushes): \A n \in 1..(nfires - 1):
          (/\ <<n>> \in Range(flushes[f].batch)
           /\ <<n + 1>> \in Range(queued)
           /\ fireAt[n + 1] - fireAt[n] < Delay)
          => <<n + 1>> \in Range(flushes[f].batch)

\* ------------------------------------------------------- MicrotaskEmitter
MaxMOps == 7            \* user operations in the microtask specification

\* the frame of a running flush callback: d is the next forEach index and
\* cur holds the batch length forEach read when it started
MicroFrame(i, n) == [k |-> "mflush", st |-> "loop", d |-> i, cur |-> <<n>>]

Flushing == \E i \in 1..Len(stack): stack[i].k = "mflush"
TopFrame == stack[Len(stack)]

\* variant: every fire queues a flush callback of its own
MicroFire_AlwaysSchedules ==
    /\ UserCode
    /\ nfires' = nfires + 1
    /\ unheard' = IF Len(listeners) = 0 THEN unheard \cup {nfires + 1} ELSE unheard
    /\ queuedEvents' = Append(queuedEvents, <<nfires + 1>>)
    /\ mtPending' = mtPending + 1
    /\ UNCHANGED <<emitterVars, leakVars, pauseVars, stack, unsetQueue, fired, calls,
                   errors, faults, flushes, subDuring, queued, npauses, peak,
                   notMicro, mflushes>>

\* MicrotaskEmitter.fire: push the payload; the push that makes the batch
\* non-empty queues the flush callback
MicroFire ==
    /\ UserCode
    /\ nfires' = nfires + 1
    /\ unheard' = IF Len(listeners) = 0 THEN unheard \cup {nfires + 1} ELSE unheard
    /\ queuedEvents' = Append(queuedEvents, <<nfires + 1>>)
    /\ mtPending' = IF Len(queuedEvents) + 1 = 1 THEN mtPending + 1 ELSE mtPending
    /\ UNCHANGED <<emitterVars, leakVars, pauseVars, stack, unsetQueue, fired, calls,
                   errors, faults, flushes, subDuring, queued, npauses, peak,
                   notMicro, mflushes>>

\* the flush callback starts, as a microtask: with a merge function it fires
\* the merged batch, otherwise it starts forEach over the batch
MicroFlushStart ==
    /\ stack = <<>>
    /\ mtPending > 0
    /\ mtPending' = mtPending - 1
    /\ mflushes' = Append(mflushes, [batch |-> queuedEvents, merged |-> mergeFn,
                                    seen |-> listenersDefined])
    /\ IF mergeFn
       THEN EmitterFire(MergeFn(queuedEvents), <<MicroFrame(1, 0)>>, "micro")
       ELSE /\ stack' = <<MicroFrame(1, Len(queuedEvents))>>
            /\ UNCHANGED <<dqDefined, deliveryQueue, fired>>
    /\ UNCHANGED <<listenersDefined, listeners, disposed, sub, leakVars, pauseVars,
                   unsetQueue, nfires, unheard, calls, errors, faults, flushes,
                   subDuring, queued, npauses, peak, notMicro, queuedEvents>>

\* the flush callback continues: forEach fires the next payload of the batch
\* it started with; at the end the callback replaces the batch by a new array
MicroFlushStep ==
    /\ stack # <<>>
    /\ TopFrame.k = "mflush"
    /\ IF TopFrame.d <= TopFrame.cur[1]
       THEN /\ EmitterFire(queuedEvents[TopFrame.d],
                           Pop(stack) \o <<MicroFrame(TopFrame.d + 1, TopFrame.cur[1])>>,
                           "micro")
            /\ UNCHANGED queuedEvents
       ELSE /\ queuedEvents' = <<>>
            /\ stack' = Pop(stack)
            /\ UNCHANGED <<dqDefined, deliveryQueue, fired>>
    /\ UNCHANGED <<listenersDefined, listeners, disposed, sub, leakVars, pauseVars,
                   unsetQueue, nfires, unheard, calls, errors, faults, flushes,
                   subDuring, queued, npauses, peak, notMicro, mtPending, mflushes>>

\* new MicrotaskEmitter(options), with or without a merge function
InitMicro ==
    /\ InitCommon
    /\ globalThreshold = -1
    /\ customThreshold = <<>>
    /\ hasMon = FALSE
    /\ mergeFn \in BOOLEAN

MOps ==
    Len(sub) + Cardinality({l \in 1..Len(sub): sub[l] = "released"}) + nfires

NextMicro ==
    \/ (MOps < MaxMOps /\ Subscribe /\ UNCHANGED extVars)
    \/ (MOps < MaxMOps /\ \E l \in 1..Len(sub): Release(l) /\ UNCHANGED extVars)
    \/ (MOps < MaxMOps /\ MicroFire)
    \/ MicroFlushStart
    \/ MicroFlushStep
    \/ (Deliver /\ UNCHANGED extVars)
    \/ (Return /\ UNCHANGED extVars)

SpecMicro == InitMicro /\ [][NextMicro]_vars

\* the payloads the flush callbacks run so far have to dispatch, in order
RECURSIVE MicroExpected(_)
MicroExpected(fs) ==
    IF fs = <<>> THEN <<>>
    ELSE LET f == fs[Len(fs)] IN
         MicroExpected(Pop(fs)) \o (IF ~f.seen THEN <<>>
                                    ELSE IF f.merged THEN <<MergeFn(f.batch)>>
                                    ELSE f.batch)

\* the payloads dispatched so far, in order
Dispatched == [d \in 1..Len(fired) |-> fired[d].e]

\* C13: the fires of one turn queue a single flush callback (one is pending
\* exactly when a batch is waiting); dispatches are made by flush callbacks
\* only: the merged value of the batch the callback found when there is a
\* merge function, otherwise each payload of that batch in the order fired;
\* and when the callback has ended the batch is empty
C13_SingleFlush ==
    /\ mtPending <= 1
    /\ Flushing => mtPending = 0
    /\ ~Flushing => ((mtPending = 1) <=> (queuedEvents # <<>>))
    /\ IsPrefix(Dispatched, MicroExpected(mflushes))
    /\ ~Flushing => Dispatched = MicroExpected(mflushes)

\* a flush callback has dispatched a batch of two or more payloads to a
\* listener (each payload, or their merged value) and has ended
C13_Witness ==
    /\ ~Flushing
    /\ queuedEvents = <<>>
    /\ \E f \in 1..Len(mflushes):
          /\ Len(mflushes[f].batch) >= 2
          /\ mflushes[f].seen
    /\ Len(calls) >= (IF mergeFn THEN 1 ELSE 2)

\* ----------------------------------------------------------- AsyncEmitter
MaxAOps == 6            \* user operations in the async specification

\* what no step of fireAsync touches
asyncIdle == <<emitterVars, leakVars, pauseVars, unsetQueue, nfires, unheard, fired,
               calls, flushes, subDuring, queued, npauses, peak, notAsync>>

AsyncFrame(c) == [k |-> "async", st |-> "loop", d |-> c, cur |-> <<>>]

Settled(p) == promises[p].st # "pending"

\* the promises joined during the synchronous call of an earlier listener of
\* the snapshot of call dc that have not settled yet
Unsettled(dc) ==
    {p \in 1..Len(promises):
        promises[p].sync /\ ~Settled(p) /\ turns[promises[p].t].dc = dc}

\* fireAsync(data, token) up to its while loop: nothing without a listener
\* list, otherwise one queue entry per listener; pre: the token that is
\* passed has cancellation requested already
FireAsync(pre) ==
    /\ UserCode
    /\ LET c == Len(acalls) + 1 IN
       /\ cancelled' = IF pre THEN cancelled \cup {c} ELSE cancelled
       /\ IF listenersDefined
          THEN /\ asyncDQ' = asyncDQ \o [i \in 1..Len(listeners) |-> [l |-> listeners[i], c |-> c]]
               /\ acalls' = Append(acalls, [st |-> "run", turn |-> 0, snap |-> listeners])
               /\ stack' = Append(stack, AsyncFrame(c))
          ELSE /\ acalls' = Append(acalls, [st |-> "done", turn |-> 0, snap |-> <<>>])
               /\ UNCHANGED <<asyncDQ, stack>>
    /\ UNCHANGED <<asyncIdle, errors, faults, turns, promises>>

\* one test of the while condition: shift the next entry and invoke its
\* listener with an event carrying this call's token, or leave the loop
AsyncLoop ==
    /\ stack # <<>>
    /\ TopFrame.k = "async"
    /\ TopFrame.st = "loop"
    /\ LET c == TopFrame.d IN
       IF asyncDQ # <<>> /\ c \notin cancelled
       THEN /\ asyncDQ' = Tail(asyncDQ)
            /\ turns' = Append(turns,
                    [c |-> c, dc |-> asyncDQ[1].c, l |-> asyncDQ[1].l,
                     thenables |-> <<>>, frozen |-> FALSE, ended |-> FALSE,
                     threw |-> FALSE, refused |-> 0,
                     early |-> Unsettled(asyncDQ[1].c),
                     dcCancelled |-> asyncDQ[1].c \in cancelled])
            /\ stack' = SetTop(stack, "cb", <<Len(turns) + 1>>)
            /\ UNCHANGED acalls
       ELSE /\ acalls' = [acalls EXCEPT ![c].st = "done"]
            /\ stack' = Pop(stack)
            /\ UNCHANGED <<asyncDQ, turns>>
    /\ UNCHANGED <<asyncIdle, errors, faults, cancelled, promises>>

\* event.waitUntil(p) of turn t, called by user code holding the event: refused
\* with the late-join error when the thenables are frozen, otherwise p joins
WaitUntil(t) ==
    /\ UserCode
    /\ IF turns[t].frozen
       THEN /\ turns' = [turns EXCEPT ![t].refused = @ + 1]
            /\ UNCHANGED promises
       ELSE /\ promises' = Append(promises,
                    [t |-> t, st |-> "pending", sync |-> ~turns[t].ended, reported |-> 0])
            /\ turns' = [turns EXCEPT ![t].thenables = Append(@, Len(promises) + 1)]
    /\ UNCHANGED <<asyncIdle, stack, errors, faults, asyncDQ, acalls, cancelled>>

\* the listener returns: the thenables are frozen and the call awaits them
AsyncReturn ==
    /\ InCallback
    /\ TopFrame.k = "async"
    /\ LET t == TopFrame.cur[1] IN
       /\ turns' = [turns EXCEPT ![t].frozen = TRUE, ![t].ended = TRUE]
       /\ acalls' = [acalls EXCEPT ![TopFrame.d].st = "await", ![TopFrame.d].turn = t]
    /\ stack' = Pop(stack)
    /\ UNCHANGED <<asyncIdle, errors, faults, asyncDQ, cancelled, promises>>

\* the listener raises: the fault is reported and the loop continues
AsyncThrow ==
    /\ InCallback
    /\ TopFrame.k = "async"
    /\ LET t == TopFrame.cur[1] IN
       /\ turns' = [turns EXCEPT ![t].ended = TRUE, ![t].threw = TRUE]
       /\ errors' = Append(errors, <<"fault", t>>)
    /\ faults' = faults + 1
    /\ stack' = SetTop(stack, "loop", <<>>)
    /\ UNCHANGED <<asyncIdle, asyncDQ, acalls, cancelled, promises>>

\* a joined promise is fulfilled or rejected by whoever owns it
Settle(p, outcome) ==
    /\ UserCode
    /\ promises[p].st = "pending"
    /\ promises' = [promises EXCEPT ![p].st = outcome]
    /\ UNCHANGED <<asyncIdle, stack, errors, faults, asyncDQ, acalls, cancelled, turns>>

\* the reports the continuation of allSettled makes for thenables ps
RECURSIVE Reports(_)
Reports(ps) ==
    IF ps = <<>> THEN <<>>
    ELSE (IF promises[ps[1]].st = "rejected" THEN <<<<"rejection", ps[1]>>>> ELSE <<>>)
         \o Reports(Tail(ps))

\* the await of call c ends, as a microtask, once every thenable of the turn
\* has settled: each rejection is reported, then the loop goes on
AsyncResume(c) ==
    /\ stack = <<>>
    /\ acalls[c].st = "await"
    /\ LET ps == turns[acalls[c].turn].thenables IN
       /\ \A i \in 1..Len(ps): Settled(ps[i])
       /\ errors' = errors \o Reports(ps)
       /\ promises' = [p \in 1..Len(promises) |->
                         IF p \in Range(ps) /\ promises[p].st = "rejected"
                         THEN [promises[p] EXCEPT !.reported = @ + 1]
                         ELSE promises[p]]
    /\ acalls' = [acalls EXCEPT ![c].st = "run"]
    /\ stack' = <<AsyncFrame(c)>>
    /\ UNCHANGED <<asyncIdle, faults, asyncDQ, cancelled, turns>>

\* token.cancel() of the token passed to call c
Cancel(c) ==
    /\ UserCode
    /\ c \notin cancelled
    /\ cancelled' = cancelled \cup {c}
    /\ UNCHANGED <<asyncIdle, stack, errors, faults, asyncDQ, acalls, turns, promises>>

\* new AsyncEmitter()
InitAsync ==
    /\ InitCommon
    /\ globalThreshold = -1
    /\ customThreshold = <<>>
    /\ hasMon = FALSE
    /\ mergeFn = FALSE

\* the user operations made so far
RECURSIVE SumRefused(_)
SumRefused(ts) == IF ts = <<>> THEN 0 ELSE ts[1].refused + SumRefused(Tail(ts))

AOps ==
    Len(sub) + Cardinality({l \in 1..Len(sub): sub[l] = "released"}) + Len(acalls)
        + Len(promises) + faults + SumRefused(turns)
        + Cardinality(cancelled)

NextAsync ==
    \/ (AOps < MaxAOps /\ Subscribe /\ UNCHANGED extVars)
    \/ (AOps < MaxAOps /\ \E l \in 1..Len(sub): Release(l) /\ UNCHANGED extVars)
    \/ (AOps < MaxAOps /\ \E pre \in BOOLEAN: FireAsync(pre))
    \/ AsyncLoop
    \/ (AOps < MaxAOps /\ \E t \in 1..Len(turns): WaitUntil(t))
    \/ AsyncReturn
    \/ (AOps < MaxAOps /\ AsyncThrow)
    \/ (\E p \in 1..Len(promises): \E o \in {"fulfilled", "rejected"}: Settle(p, o))
    \/ (\E c \in 1..Len(acalls): AsyncResume(c))
    \/ (AOps < MaxAOps /\ \E c \in 1..Len(acalls): Cancel(c))

SpecAsync == InitAsync /\ [][NextAsync]_vars

\* C14: delivery of fireAsync is sequential: when a listener is invoked, every
\* promise that an earlier listener of the same call's snapshot passed to
\* waitUntil during its synchronous call has settled, whatever the listeners do
C14_Sequential ==
    \A t \in 1..Len(turns): turns[t].early = {}

\* C15: once cancellation is requested on the token of a fireAsync call, no
\* listener is invoked any more with that call's payload, whatever operations
\* follow
C15_CancelStops ==
    \A t \in 1..Len(turns): ~turns[t].dcCancelled

\* C16: once the synchronous call of a listener has ended, by returning or by
\* raising, waitUntil of that turn is refused and adds no promise: every
\* promise in a turn's collection was passed during the synchronous call
C16_LateJoinRefused ==
    \A p \in 1..Len(promises): promises[p].sync

\* the call that ran turn t is past the turn: it is not inside the listener
\* and not awaiting the turn's thenables
Past(t) ==
    /\ turns[t].ended
    /\ ~(acalls[turns[t].c].st = "await" /\ acalls[turns[t].c].turn = t)

\* C17: a promise passed to waitUntil during the synchronous call that is
\* rejected is reported to the error sink exactly once: never more than once,
\* and once the call is past the turn and the promise is rejected, once
C17_RejectionReported ==
    \A p \in 1..Len(promises):
        /\ promises[p].reported <= 1
        /\ (promises[p].sync /\ promises[p].st = "rejected" /\ Past(promises[p].t))
              => promises[p].reported = 1

\* ------------------------------------------------------- EventMultiplexer
MaxXOps == 7            \* user operations in the multiplexer specification

\* events[a] is the entry made by the a-th add call: tracked (still in the
\* `events` array), listener (e.listener is not null), and live, the number of
\* subscriptions to its upstream event that were made and not disposed
Tracked == {a \in 1..Len(events): events[a].tracked}

\* hook(e): subscribe to the upstream event and store the subscription
Hook(e) == [e EXCEPT !.listener = TRUE, !.live = @ + 1]

\* unhook(e): dispose the stored subscription, if any, and clear the field
Unhook(e) == [e EXCEPT !.listener = FALSE, !.live = IF e.listener THEN @ - 1 ELSE @]

\* onFirstListenerAdd, an option of the inner emitter
OnFirstListenerAdd ==
    /\ hasListeners' = TRUE
    /\ events' = [a \in 1..Len(events) |->
                    IF events[a].tracked THEN Hook(events[a]) ELSE events[a]]

\* onLastListenerRemove, an option of the inner emitter
OnLastListenerRemove ==
    /\ hasListeners' = FALSE
    /\ events' = [a \in 1..Len(events) |->
                    IF events[a].tracked THEN Unhook(events[a]) ELSE events[a]]

\* multiplexer.add(event)
MuxAdd ==
    /\ UserCode
    /\ events' = Append(events, IF hasListeners
                                THEN Hook([tracked |-> TRUE, listener |-> FALSE, live |-> 0])
                                ELSE [tracked |-> TRUE, listener |-> FALSE, live |-> 0])
    /\ UNCHANGED <<emitterVars, leakVars, pauseVars, stack, unsetQueue, histVars,
                   hasListeners, notMux>>

\* the disposable returned by add is disposed; onceFn makes a second call a no-op
MuxRemove(a) ==
    /\ UserCode
    /\ events[a].tracked
    /\ events' = [events EXCEPT ![a] =
                    [(IF hasListeners THEN Unhook(@) ELSE @) EXCEPT !.tracked = FALSE]]
    /\ UNCHANGED <<emitterVars, leakVars, pauseVars, stack, unsetQueue, histVars,
                   hasListeners, notMux>>

\* multiplexer.event(callback): Emitter.event with the onFirstListenerAdd option
MuxSubscribe ==
    /\ Subscribe
    /\ IF Len(listeners) = 0 THEN OnFirstListenerAdd ELSE UNCHANGED muxVars
    /\ UNCHANGED notMux

\* a downstream release handle: the onLastListenerRemove option is called
\* when the emitter is not disposed and the list became empty
MuxRelease(l) ==
    /\ Release(l)
    /\ IF ~disposed /\ Len(listeners') = 0
       THEN OnLastListenerRemove
       ELSE UNCHANGED muxVars
    /\ UNCHANGED notMux

\* multiplexer.dispose(): Emitter.dispose with the onLastListenerRemove option
MuxDispose ==
    /\ Dispose
    /\ IF ~disposed THEN OnLastListenerRemove ELSE UNCHANGED muxVars
    /\ UNCHANGED notMux

\* an upstream event fires: the hooked callback fires the inner emitter
UpstreamFire(a) ==
    /\ events[a].live > 0
    /\ Fire
    /\ UNCHANGED extVars

XOps ==
    Len(sub) + Cardinality({l \in 1..Len(sub): sub[l] = "released"}) + nfires
        + Len(events) + Cardinality({a \in 1..Len(events): ~events[a].tracked})
        + (IF disposed THEN 1 ELSE 0)

NextMux ==
    \/ (XOps < MaxXOps /\ MuxSubscribe)
    \/ (XOps < MaxXOps /\ \E l \in 1..Len(sub): MuxRelease(l))
    \/ (XOps < MaxXOps /\ MuxAdd)
    \/ (XOps < MaxXOps /\ \E a \in 1..Len(events): MuxRemove(a))
    \/ (XOps < MaxXOps /\ \E a \in 1..Len(events): UpstreamFire(a))
    \/ (Deliver /\ UNCHANGED extVars)
    \/ (Return /\ UNCHANGED extVars)
    \/ (XOps < MaxXOps /\ MuxDispose)
    \/ (Microtask /\ UNCHANGED extVars)

SpecMux == Init /\ [][NextMux]_vars

\* the downstream listeners: subscribed to the multiplexer and not released
Downstream == {l \in Range(listeners): sub[l] # "released"}

\* C18: a tracked source has a live upstream subscription exactly when the
\* multiplexer has a downstream listener, and a source whose add handle was
\* released has none
C18_MuxHooked ==
    \A a \in 1..Len(events):
        IF events[a].tracked
        THEN /\ events[a].live <= 1
             /\ (events[a].live = 1) <=> (Downstream # {})
        ELSE events[a].live = 0

\* ---------------------------------------------------------- EventBufferer
\* One listener is subscribed through wrapEvent to an upstream event.  The
\* stack holds a frame "fn" while the function passed to bufferEvents
\* executes, "bflush" while bufferEvents flushes its buffer (cur is <<next
\* index, length read by forEach>>), and "blistener" while the listener runs.
MaxBOps == 6            \* bufferEvents calls and emissions in the bufferer specification

\* what no operation of the EventBufferer touches
bufIdle == <<emitterVars, leakVars, pauseVars, unsetQueue, histVars, notBuf>>

\* a function passed to bufferEvents is executing
Executing == \E i \in 1..Len(stack): stack[i].k = "fn"

\* the listener is called with payload n
Invoke(n, stk) ==
    /\ binv' = Append(binv, [n |-> n, inside |-> \E i \in 1..Len(stk): stk[i].k = "fn",
                             buffered |-> \E b \in 1..Len(bufs): n \in Range(bufs[b])])
    /\ stack' = Append(stk, [k |-> "blistener", st |-> "cb", d |-> n, cur |-> <<>>])

\* bufferEvents(fn) up to the call of fn: a new buffer is pushed
BufferEvents ==
    /\ UserCode
    /\ buffers' = Append(buffers, Len(bufs) + 1)
    /\ bufs' = Append(bufs, <<>>)
    /\ stack' = Append(stack, [k |-> "fn", st |-> "cb", d |-> Len(bufs) + 1, cur |-> <<>>])
    /\ UNCHANGED <<bufIdle, nemit, binv>>

\* fn returns: bufferEvents pops the innermost buffer and starts to flush its own
FnReturn ==
    /\ stack # <<>>
    /\ TopFrame.k = "fn"
    /\ buffers' = Pop(buffers)
    /\ stack' = Pop(stack) \o <<[k |-> "bflush", st |-> "loop", d |-> TopFrame.d,
                                 cur |-> <<1, Len(bufs[TopFrame.d])>>]>>
    /\ UNCHANGED <<bufIdle, bufs, nemit, binv>>

\* fn raises: the exception leaves bufferEvents at once, past the pop and the
\* flush, and is caught by the caller of bufferEvents
FnThrow ==
    /\ stack # <<>>
    /\ TopFrame.k = "fn"
    /\ stack' = Pop(stack)
    /\ UNCHANGED <<bufIdle, bufVars>>

\* buffer.forEach(flush => flush()): the next buffered call, or bufferEvents returns
BFlushStep ==
    /\ stack # <<>>
    /\ TopFrame.k = "bflush"
    /\ LET i == TopFrame.cur[1]
           n == TopFrame.cur[2] IN
       IF i <= n
       THEN Invoke(bufs[TopFrame.d][i],
                   Pop(stack) \o <<[TopFrame EXCEPT !.cur = <<i + 1, n>>]>>)
       ELSE /\ stack' = Pop(stack)
            /\ UNCHANGED binv
    /\ UNCHANGED <<bufIdle, buffers, bufs, nemit>>

\* the upstream event emits: the wrapper pushes the call on the innermost
\* open buffer, or calls the listener when no buffer is open
Emit ==
    /\ UserCode
    /\ nemit' = nemit + 1
    /\ IF buffers # <<>>
       THEN /\ bufs' = [bufs EXCEPT ![buffers[Len(buffers)]] = Append(@, nemit + 1)]
            /\ UNCHANGED <<binv, stack>>
       ELSE /\ Invoke(nemit + 1, stack)
            /\ UNCHANGED bufs
    /\ UNCHANGED <<bufIdle, buffers>>

\* the listener returns
ListenerReturn ==
    /\ stack # <<>>
    /\ TopFrame.k = "blistener"
    /\ stack' = Pop(stack)
    /\ UNCHANGED <<bufIdle, bufVars>>

BOps == Len(bufs) + nemit

NextBuf ==
    \/ (BOps < MaxBOps /\ BufferEvents)
    \/ FnReturn
    \/ FnThrow
    \/ BFlushStep
    \/ (BOps < MaxBOps /\ Emit)
    \/ ListenerReturn

SpecBuf == Init /\ [][NextBuf]_vars

\* C19: no listener subscribed through wrapEvent is invoked while a function
\* passed to bufferEvents is executing, nested calls included, and the
\* emissions buffered in critical sections are delivered in arrival order
C19_NoDeliveryInside ==
    /\ \A i \in 1..Len(binv): ~binv[i].inside
    /\ \A i, j \in 1..Len(binv):
          (i < j /\ binv[i].buffered /\ binv[j].buffered) => binv[i].n < binv[j].n

\* ------------------------------------------------------------------ Relay
MaxROps == 7            \* user operations in the relay specification
Inputs == 1..2          \* the upstream events that can be assigned to Relay.input

\* inputEventListener.dispose(): idempotent, nothing for Disposable.None
DisposeInput(rs) ==
    IF inputEventListener = 0 THEN rs
    ELSE [rs EXCEPT ![inputEventListener].live = FALSE]

\* event(this.emitter.fire, this.emitter) on subscriptions rs: Event.None
\* returns Disposable.None, an upstream event a new live subscription
SubscribeInput(ev, rs) ==
    IF ev = 0
    THEN /\ rsubs' = rs
         /\ inputEventListener' = 0
    ELSE /\ rsubs' = Append(rs, [src |-> ev, live |-> TRUE])
         /\ inputEventListener' = Len(rs) + 1

\* onFirstListenerDidAdd, an option of the inner emitter
OnFirstListenerDidAdd ==
    /\ listening' = TRUE
    /\ SubscribeInput(inputEvent, rsubs)

\* onLastListenerRemove, an option of the inner emitter
RelayOnLastListenerRemove ==
    /\ listening' = FALSE
    /\ rsubs' = DisposeInput(rsubs)
    /\ UNCHANGED inputEventListener

\* relay.event(callback)
RelaySubscribe ==
    /\ Subscribe
    /\ IF Len(listeners) = 0
       THEN OnFirstListenerDidAdd
       ELSE UNCHANGED <<listening, rsubs, inputEventListener>>
    /\ UNCHANGED <<inputEvent, nswaps, ndisp, upq, fwd, notRelay>>

\* a downstream release handle
RelayRelease(l) ==
    /\ Release(l)
    /\ IF ~disposed /\ Len(listeners') = 0
       THEN RelayOnLastListenerRemove
       ELSE UNCHANGED <<listening, rsubs, inputEventListener>>
    /\ UNCHANGED <<inputEvent, nswaps, ndisp, upq, fwd, notRelay>>

\* relay.input = ev
SetInput(ev) ==
    /\ UserCode
    /\ inputEvent' = ev
    /\ nswaps' = nswaps + 1
    /\ IF listening
       THEN SubscribeInput(ev, DisposeInput(rsubs))
       ELSE UNCHANGED <<rsubs, inputEventListener>>
    /\ UNCHANGED <<emitterVars, leakVars, pauseVars, stack, unsetQueue, histVars,
                   listening, ndisp, upq, fwd, notRelay>>

\* relay.dispose(): the stored subscription is disposed, then the emitter,
\* whose dispose calls onLastListenerRemove the first time
RelayDispose ==
    /\ Dispose
    /\ ndisp' = ndisp + 1
    /\ rsubs' = DisposeInput(rsubs)
    /\ listening' = IF ~disposed THEN FALSE ELSE listening
    /\ UNCHANGED <<inputEvent, inputEventListener, nswaps, upq, fwd, notRelay>>

\* Each upstream event is the event of an Emitter that has one listener of
\* user code, subscribed first, and behind it the listeners the relay
\* subscribed.  Upstream emitter s fires a fresh payload: Emitter.fire queues
\* one delivery per listener in its list, the relay's live subscriptions
\* included, and starts its loop
UpFire(s) ==
    /\ UserCode
    /\ nfires' = nfires + 1
    /\ upq' = [upq EXCEPT ![s] = @ \o <<[r |-> 0, p |-> nfires + 1]>> \o
                 [j \in 1..Cardinality({i \in 1..Len(rsubs): rsubs[i].src = s /\ rsubs[i].live}) |->
                    [r |-> CHOOSE i \in 1..Len(rsubs):
                              /\ rsubs[i].src = s /\ rsubs[i].live
                              /\ Cardinality({h \in 1..i: rsubs[h].src = s /\ rsubs[h].live}) = j,
                     p |-> nfires + 1]]]
    /\ stack' = Append(stack, [k |-> "up", st |-> "loop", d |-> s, cur |-> <<>>])
    /\ UNCHANGED <<emitterVars, leakVars, pauseVars, unsetQueue, unheard, fired, calls,
                   errors, faults, flushes, subDuring, queued, npauses, peak,
                   listening, inputEvent, inputEventListener, rsubs, nswaps, ndisp, fwd,
                   notRelay>>

\* the loop of the upstream Emitter.fire: the next queued listener is invoked,
\* the user listener with its callback, a listener of the relay with
\* emitter.fire of the relay; or the loop ends
UpDeliver ==
    /\ stack # <<>>
    /\ TopFrame.k = "up"
    /\ TopFrame.st = "loop"
    /\ LET s == TopFrame.d IN
       IF upq[s] = <<>>
       THEN /\ stack' = Pop(stack)
            /\ UNCHANGED <<upq, fwd, dqDefined, deliveryQueue, fired>>
       ELSE /\ upq' = [upq EXCEPT ![s] = Tail(@)]
            /\ IF upq[s][1].r = 0
               THEN /\ stack' = SetTop(stack, "cb", <<>>)
                    /\ UNCHANGED <<fwd, dqDefined, deliveryQueue, fired>>
               ELSE /\ fwd' = Append(fwd, [p |-> upq[s][1].p, src |-> s,
                                            live |-> rsubs[upq[s][1].r].live,
                                            input |-> inputEvent,
                                            d |-> IF listenersDefined THEN Len(fired) + 1 ELSE 0])
                    /\ EmitterFire(<<upq[s][1].p>>, stack, "relay")
    /\ UNCHANGED <<listenersDefined, listeners, disposed, sub, leakVars, pauseVars,
                   unsetQueue, nfires, unheard, calls, errors, faults, flushes, subDuring,
                   queued, npauses, peak, listening, inputEvent, inputEventListener,
                   rsubs, nswaps, ndisp, notRelay>>

ROps ==
    Len(sub) + Cardinality({l \in 1..Len(sub): sub[l] = "released"}) + nfires
        + nswaps + ndisp

NextRelay ==
    \/ (ROps < MaxROps /\ RelaySubscribe)
    \/ (ROps < MaxROps /\ \E l \in 1..Len(sub): RelayRelease(l))
    \/ (ROps < MaxROps /\ \E ev \in Inputs: SetInput(ev))
    \/ (ROps < MaxROps /\ \E s \in Inputs: UpFire(s))
    \/ UpDeliver
    \/ (Deliver /\ UNCHANGED extVars)
    \/ (Return /\ UNCHANGED extVars)
    \/ (ROps < MaxROps /\ RelayDispose)
    \/ (Microtask /\ UNCHANGED extVars)

SpecRelay == Init /\ [][NextRelay]_vars

\* the live subscriptions the relay holds on upstream events
LiveSubs == {i \in 1..Len(rsubs): rsubs[i].live}

\* C20: a relay without downstream listener holds no live upstream
\* subscription; a relay with a downstream listener holds exactly one, to its
\* current input (none as long as the input is Event.None, which gives none)
C20_RelayOneSubscription ==
    IF Downstream = {}
    THEN LiveSubs = {}
    ELSE IF inputEvent = 0
         THEN LiveSubs = {}
         ELSE /\ Cardinality(LiveSubs) = 1
              /\ \A i \in LiveSubs: rsubs[i].src = inputEvent

\* C21: once input was set to another source, no payload of the old upstream
\* is forwarded downstream any more, also when the swap is made while the old
\* upstream is in the middle of a dispatch; and a relay that is not listening
\* holds no upstream subscription
C21_SwapStopsOld ==
    /\ \A f \in 1..Len(fwd): fwd[f].src = fwd[f].input
    /\ ~listening => LiveSubs = {}

\* ------------------------------------------------------------- Event.once
MaxOOps == 7            \* user operations in the Event.once specification

\* Event.once(emitter.event)(listener): the wrapper is subscribed to the
\* emitter; Emitter.event does not fire while it subscribes, so didFire is
\* false and result is assigned when the call returns
SubscribeOnce ==
    /\ Subscribe
    /\ onceL' = onceL \cup {Len(sub) + 1}
    /\ UNCHANGED <<onceInv, notOnce>>

\* the fire loop invokes a listener that is not a wrapper of Event.once
DeliverPlain ==
    /\ Deliver
    /\ deliveryQueue # <<>> => Head(deliveryQueue).l \notin onceL
    /\ UNCHANGED extVars

\* the fire loop invokes a wrapper of Event.once: didFire is false and result
\* is set, so the wrapper disposes result and calls the listener
DeliverOnce ==
    /\ stack # <<>>
    /\ TopFrame.k = "fire"
    /\ TopFrame.st = "loop"
    /\ deliveryQueue # <<>>
    /\ LET l == Head(deliveryQueue).l IN
       /\ l \in onceL
       /\ deliveryQueue' = Tail(deliveryQueue)
       /\ calls' = Append(calls, <<l, Head(deliveryQueue).d>>)
       /\ stack' = SetTop(stack, "cb", <<l, Head(deliveryQueue).d>>)
       /\ onceInv' = Append(onceInv, l)
       /\ IF sub[l] = "set"
          THEN /\ sub' = [sub EXCEPT ![l] = "released"]
               /\ IF mon[l] # 0
                  THEN stacks' = MapSet(stacks, mon[l], MapGet(stacks, mon[l]) - 1)
                  ELSE UNCHANGED stacks
               /\ IF ~disposed
                  THEN listeners' = Remove(listeners, l)
                  ELSE UNCHANGED listeners
          ELSE UNCHANGED <<sub, stacks, listeners>>
    /\ UNCHANGED <<listenersDefined, dqDefined, disposed, mon, hasMon, customThreshold,
                   globalThreshold, warnCountdown, warnings, pauseVars, unsetQueue,
                   nfires, unheard, fired, errors, faults, flushes, subDuring, queued,
                   npauses, peak, onceL, notOnce>>

NextOnce ==
    \/ (Ops < MaxOOps /\ Subscribe /\ UNCHANGED extVars)
    \/ (Ops < MaxOOps /\ SubscribeOnce)
    \/ (Ops < MaxOOps /\ \E l \in 1..Len(sub): Release(l) /\ UNCHANGED extVars)
    \/ (Ops < MaxOOps /\ Fire /\ UNCHANGED extVars)
    \/ DeliverPlain
    \/ DeliverOnce
    \/ (Return /\ UNCHANGED extVars)
    \/ (Ops < MaxOOps /\ Dispose /\ UNCHANGED extVars)
    \/ (Microtask /\ UNCHANGED extVars)

SpecOnce == Init /\ [][NextOnce]_vars

\* C22: a listener subscribed through Event.once is invoked at most once,
\* whatever fires are made on the source, reentrant ones included, and after
\* its invocation its wrapper is no longer in the source's listener list
C22_OnceAtMostOnce ==
    \A l \in onceL:
        /\ Cardinality({i \in 1..Len(onceInv): onceInv[i] = l}) <= 1
        /\ l \in Range(onceInv) => l \notin Range(listeners)


\* ------------------------------------------------- released while queued
\* C23: a listener that a fire queued and that is released afterwards keeps
\* its place in that dispatch.  For every fire call that no dispose has cut
\* short, each listener of its snapshot that was subscribed when the call
\* started and is released by now has been invoked for the call, or is still
\* queued for it, exactly once in all, and what is queued carries the
\* payload of the call; so a listener released by an earlier listener of the
\* same dispatch is still invoked with the payload.
C23_ReleasedStillInvoked ==
    /\ \A i \in 1..Len(deliveryQueue):
            deliveryQueue[i].e = fired[deliveryQueue[i].d].e
    /\ \A d \in 1..Len(fired):
            ~fired[d].cut =>
                \A l \in Range(fired[d].snap):
                    (sub[l] = "released" /\ l \notin fired[d].rel) =>
                        Len(SelectSeq(CallsOf(d), LAMBDA x: x = l))
                            + Len(SelectSeq(PendingOf(d), LAMBDA x: x = l)) = 1

\* the callback of listener `cur[1]` is running for dispatch `cur[2]`; the
\* frame that invoked it belongs to a later fire call, one that an earlier
\* listener of the dispatch made and that found the listener released
\* already: the release came after the listener was queued and before its
\* turn
C23_Witness ==
    /\ InCallback
    /\ ~disposed
    /\ LET f == stack[Len(stack)] IN
          /\ f.cur[2] < f.d
          /\ f.cur[1] \in Range(fired[f.cur[2]].snap)
          /\ f.cur[1] \notin fired[f.cur[2]].rel
          /\ f.cur[1] \in fired[f.d].rel
          /\ calls[Len(calls)] = f.cur

\* ------------------------------------------------------- breadth first
\* C24: a fire made while another fire is being dispatched waits its turn.
\* Whenever a listener has been invoked for a fire call q, every earlier
\* fire call p (the one whose listener made q included) has nothing queued
\* any more, has had every listener of its snapshot invoked unless a dispose
\* cut it short, and all of p's invocations were made before that one.
C24_BreadthFirst ==
    \A i \in 1..Len(calls):
        \A p \in 1..(calls[i][2] - 1):
            /\ PendingOf(p) = <<>>
            /\ ~fired[p].cut => CallsOf(p) = fired[p].snap
            /\ \A j \in 1..Len(calls): calls[j][2] = p => j < i

\* the first listener of a dispatch p over two or more listeners fired
\* again from its callback; the nested call is now running a callback of its
\* own, after every listener of p
C24_Witness ==
    /\ Len(stack) = 2
    /\ stack[1].k = "fire" /\ stack[2].k = "fire"
    /\ stack[2].st = "cb"
    /\ LET p == stack[1].d
           q == stack[2].d
       IN  /\ Len(fired[p].snap) >= 2
           /\ stack[1].cur = <<fired[p].snap[1], p>>
           /\ stack[2].cur[2] = q
           /\ CallsOf(p) = fired[p].snap

\* --------------------------------------------------- pause during a flush
\* C25: without a merge function, a pause made by a listener during a flush
\* stops the flush.  No step that starts and ends with the counter above 0
\* starts a dispatch or takes a payload from the queue: the queue only grows
\* at its end.  A payload leaves the queue only from its front, in a step that
\* dispatches exactly that payload, so what is left keeps its order and is
\* neither lost nor dispatched twice.  And a flush loop that ends with the
\* counter at 0 leaves the queue empty, so the resume that brings the counter
\* back to 0 delivers the remainder.
C25_PauseStopsFlush ==
    [][ ~mergeFn =>
          /\ (isPaused # 0 /\ isPaused' # 0) =>
                /\ Len(fired') = Len(fired)
                /\ IsPrefix(eventQueue, eventQueue')
          /\ eventQueue' # eventQueue =>
                \/ /\ Len(eventQueue) > 0
                   /\ eventQueue' = Tail(eventQueue)
                   /\ Len(fired') = Len(fired) + 1
                   /\ fired'[Len(fired')].e = Head(eventQueue)
                   /\ fired'[Len(fired')].src = "resume"
                \/ /\ Len(eventQueue') = Len(eventQueue) + 1
                   /\ IsPrefix(eventQueue, eventQueue')
                   /\ Len(fired') = Len(fired)
          /\ (stack # <<>> /\ stack[Len(stack)].k = "flush" /\ stack' = Pop(stack)
                /\ isPaused = 0) => eventQueue = <<>>
      ]_vars

\* pause; fire; fire; resume, whose flush dispatched the first payload; the
\* listener paused from its callback, so the second payload was still queued
\* when the next resume brought the counter to 0; that resume dispatched it:
\* both payloads were dispatched once, in fire order, and delivered
C25_Witness ==
    /\ ~mergeFn
    /\ stack = <<>>
    /\ eventQueue = <<>>
    /\ Len(flushes) = 2
    /\ Len(flushes[1].batch) = 2
    /\ flushes[2].batch = Tail(flushes[1].batch)
    /\ Len(fired) = 2
    /\ Emitted = flushes[1].batch
    /\ \A d \in 1..Len(fired): CallsOf(d) # <<>>

\* ------------------------------------------------ interleaved fireAsync
\* C26 (as claimed): whenever a fireAsync call whose token is not cancelled
\* has completed, each listener of its snapshot has been invoked exactly once
\* for it, with the token of that call, and every promise joined during these
\* invocations has settled, however the calls interleave.
C26_CallCompletesWhole ==
    \A c \in 1..Len(acalls):
        (acalls[c].st = "done" /\ c \notin cancelled) =>
            /\ \A i \in 1..Len(acalls[c].snap):
                  LET ts == {t \in 1..Len(turns):
                                turns[t].dc = c /\ turns[t].l = acalls[c].snap[i]}
                  IN  /\ Cardinality(ts) = 1
                      /\ \A t \in ts: turns[t].c = c
            /\ \A p \in 1..Len(promises):
                  turns[promises[p].t].dc = c => Settled(p)

\* ------------------------------------------------ fired during a flush
\* C27 (as claimed): every payload fired on a MicrotaskEmitter while a
\* listener is subscribed is dispatched exactly once, on its own or in one
\* merged batch, a payload fired by a listener during a flush included: it is
\* never dispatched twice, and once no flush callback is running or pending
\* and the batch is empty, so that nothing is left that could dispatch it, it
\* has been dispatched.
C27_EveryPayloadDispatched ==
    \A n \in (1..nfires) \ unheard:
        LET ds == {d \in 1..Len(fired): n \in Range(fired[d].e)} IN
        /\ Cardinality(ds) <= 1
        /\ (stack = <<>> /\ mtPending = 0 /\ queuedEvents = <<>>) => Cardinality(ds) = 1

\* ------------------------------------------------- bufferEvents exits
\* C28 (as claimed): bufferEvents leaves the buffer stack as it found it on
\* every exit, an exit by an exception of fn included: the buffers on the
\* stack are those of the calls whose fn is executing.  So when no call of
\* bufferEvents is in progress no buffer is open, an emission is delivered at
\* once, and every emission made so far has been delivered.
C28_BufferStackRestored ==
    /\ Len(buffers) = Cardinality({i \in 1..Len(stack): stack[i].k = "fn"})
    /\ stack = <<>> => \A n \in 1..nemit: \E i \in 1..Len(binv): binv[i].n = n

============================================================================
